---- MODULE Spec2Model ----
(***************************************************************************)
(* A model of the file-transfer service of src/server/main.py,            *)
(* src/server/handlers.py and src/client/main.py.                         *)
(*                                                                         *)
(* Byte strings are sequences of atoms.  An atom is one byte, written as   *)
(* a one-character string, or one of a few indivisible multi-byte pieces   *)
(* (see Weight).  A socket read returns a non-empty prefix of the bytes    *)
(* in flight, cut between atoms, of at most the size the call asks for.    *)
(*                                                                         *)
(* The calls on `logger` (server/main.py) have no implementation under     *)
(* src/: LoggingHandler is an empty class in handlers.py.  They are        *)
(* modelled from the specification, which treats console logging as an     *)
(* external collaborator: a call records its event and returns (Log).      *)
(***************************************************************************)
EXTENDS Integers, Sequences, FiniteSets, TLC

(***************************************************************************)
(* Bounds of the model.                                                    *)
(***************************************************************************)
NumSessions == 2
MaxLines == 2
MaxServed == 3
MaxCalls == 2

(***************************************************************************)
(* Program constants: the sizes of the reads of the command loop and of an *)
(* upload, and the size from which GET sends no content.                   *)
(***************************************************************************)
CmdRecvMax == 4096
PutRecvMax == 8192
SmallFileLimit == 1024

Sessions == 1..NumSessions

(***************************************************************************)
(* Atoms.                                                                  *)
(***************************************************************************)
SP == " "
LF == "\n"
\* one byte that is not valid UTF-8
BAD == "0xFF"
\* SmallFileLimit bytes of printable ASCII text, as one piece
BLK == "#1KiB#"
\* CmdRecvMax bytes of printable ASCII text, as one piece
BLK4 == "#4KiB#"
\* the JSON text  {"content":"  and the JSON text  "}  (no blank inside)
JOPEN == "{\"content\":\""
JCLOSE == "\"}"
\* the JSON text  {}
JEMPTY == "{}"
\* the name and the content of the sample file
SampleName == "TestFile.txt"
SampleText == "This is a sample file."

Weight(a) ==
    CASE a = BLK -> SmallFileLimit
      [] a = BLK4 -> CmdRecvMax
      [] a = JOPEN -> 12
      [] a = JCLOSE -> 2
      [] a = JEMPTY -> 2
      [] a = SampleName -> 12
      [] a = SampleText -> 22
      [] OTHER -> 1

RECURSIVE ByteLen(_)
ByteLen(s) == IF s = <<>> THEN 0 ELSE Weight(Head(s)) + ByteLen(Tail(s))

Take(s, k) == SubSeq(s, 1, k)
Drop(s, k) == SubSeq(s, k + 1, Len(s))
Last(s) == s[Len(s)]

\* the lengths of the prefixes of buf that hold at most max bytes
Fits(buf, max) == {k \in 1..Len(buf) : ByteLen(Take(buf, k)) <= max}

\* The reads of at most max bytes the model follows, as lengths of prefixes of
\* buf: one atom, the first line, or all that is there and fits.
RecvCuts(buf, max) ==
    LET fits == Fits(buf, max)
        all == CHOOSE k \in fits : \A j \in fits : j <= k
        lines == {k \in fits : buf[k] = "\n" /\ \A j \in 1..(k - 1) : buf[j] # "\n"}
    IN  IF buf = <<>> THEN {} ELSE {1, all} \cup lines

(***************************************************************************)
(* Python's str.strip, str.split(maxsplit=1), str.upper and bytes.decode.  *)
(***************************************************************************)
Whitespace == {SP, LF}

RECURSIVE LStrip(_)
LStrip(s) == IF s # <<>> /\ Head(s) \in Whitespace THEN LStrip(Tail(s)) ELSE s

RECURSIVE RStrip(_)
RStrip(s) ==
    IF s # <<>> /\ Last(s) \in Whitespace THEN RStrip(Take(s, Len(s) - 1)) ELSE s

Strip(s) == RStrip(LStrip(s))

\* index of the first whitespace atom of s, 0 when there is none
FirstWS(s) ==
    IF \E i \in 1..Len(s) : s[i] \in Whitespace
    THEN CHOOSE i \in 1..Len(s) :
            s[i] \in Whitespace /\ \A j \in 1..(i - 1) : s[j] \notin Whitespace
    ELSE 0

SplitMax1(s) ==
    LET t == LStrip(s)
        i == FirstWS(t)
        rest == IF i = 0 THEN <<>> ELSE LStrip(Drop(t, i - 1))
    IN  IF t = <<>> THEN <<>>
        ELSE IF rest = <<>> THEN << IF i = 0 THEN t ELSE Take(t, i - 1) >>
        ELSE << Take(t, i - 1), rest >>

UpperAtom(a) ==
    CASE a = "l" -> "L"
      [] a = "s" -> "S"
      [] a = "f" -> "F"
      [] a = "e" -> "E"
      [] a = "x" -> "X"
      [] OTHER -> a

Upper(s) == [i \in 1..Len(s) |-> UpperAtom(s[i])]

Utf8(s) == \A i \in 1..Len(s) : s[i] # BAD

(***************************************************************************)
(* FTPProtocol.parse_command                                               *)
(***************************************************************************)
parse_command(data) ==
    IF ~Utf8(data)
    THEN [command |-> <<>>, argument |-> <<>>]
    ELSE LET parts == SplitMax1(Strip(data))
         IN  [command  |-> IF Len(parts) > 0 THEN Upper(parts[1]) ELSE <<>>,
              argument |-> IF Len(parts) > 1 THEN parts[2] ELSE <<>>]

(***************************************************************************)
(* CommandParser                                                           *)
(***************************************************************************)
LS == <<"L", "S">>
GET == <<"G", "E", "T">>
PUT == <<"P", "U", "T">>
EXIT == <<"E", "X", "I", "T">>
HELP == <<"H", "E", "L", "P">>
CD == <<"C", "D">>
PWD == <<"P", "W", "D">>
MKDIR == <<"M", "K", "D", "I", "R">>
DELETE == <<"D", "E", "L", "E", "T", "E">>

VALID_COMMANDS == {LS, GET, PUT, EXIT, HELP, CD, PWD, MKDIR, DELETE}

\* parse that leaves the case of the command as it is written
CommandParser_parse_as_written(line) ==
    LET parts == SplitMax1(Strip(line))
    IN  [command  |-> IF Len(parts) > 0 THEN parts[1] ELSE <<>>,
         argument |-> IF Len(parts) > 1 THEN parts[2] ELSE <<>>]

\* CommandParser.parse, the pair as a record
CommandParser_parse(line) ==
    LET parts == SplitMax1(Strip(line))
    IN  [command  |-> IF Len(parts) > 0 THEN Upper(parts[1]) ELSE <<>>,
         argument |-> IF Len(parts) > 1 THEN parts[2] ELSE <<>>]

validate(command) == command \in VALID_COMMANDS

(***************************************************************************)
(* The file system.  A path is a directory and a name in it; the name <<>> *)
(* is the directory itself.  Directories: "data" is DATA_DIR, "cwd" its    *)
(* parent, "above" the ancestors of cwd, "fsroot" is /, and "nodir" is a   *)
(* directory that does not exist.  File contents are byte strings.         *)
(***************************************************************************)
RECURSIVE SplitOn(_, _)
SplitOn(s, sep) ==
    IF \E i \in 1..Len(s) : s[i] = sep
    THEN LET i == CHOOSE i \in 1..Len(s) :
                     s[i] = sep /\ \A j \in 1..(i - 1) : s[j] # sep
         IN  <<Take(s, i - 1)>> \o SplitOn(Drop(s, i), sep)
    ELSE <<s>>

UpDir(d) ==
    CASE d = "data" -> "cwd"
      [] d = "cwd" -> "above"
      [] OTHER -> d

RECURSIVE Walk(_, _)
Walk(p, comps) ==
    IF comps = <<>> THEN p
    ELSE LET c == Head(comps)
         IN  IF c = <<>> \/ c = <<".">> THEN Walk(p, Tail(comps))
             ELSE IF p.name # <<>> \/ p.dir = "nodir"
                  THEN [dir |-> "nodir", name |-> <<>>]
             ELSE IF c = <<".", ".">>
                  THEN Walk([dir |-> UpDir(p.dir), name |-> <<>>], Tail(comps))
             ELSE Walk([dir |-> p.dir, name |-> c], Tail(comps))

\* DATA_DIR / argument, as the operating system resolves it
Resolve(argument) ==
    Walk([dir |-> IF argument # <<>> /\ Head(argument) = "/" THEN "fsroot" ELSE "data",
          name |-> <<>>],
         SplitOn(argument, "/"))

InsideRoot(p) == p.dir = "data"

\* the directories below the ones named above: files maps regular files only
Directories == {[dir |-> "data", name |-> <<"d">>]}

PathExists(files, p) ==
    p.dir # "nodir" /\ (p.name = <<>> \/ p \in DOMAIN files \/ p \in Directories)
PathIsFile(files, p) == p.dir # "nodir" /\ p.name # <<>> /\ p \in DOMAIN files
\* open(path, "w") succeeds: the directory exists and the path is no directory
CanOpenForWrite(p) == p.dir # "nodir" /\ p.name # <<>> /\ p \notin Directories

WriteFile(files, p, content) ==
    [q \in DOMAIN files \cup {p} |-> IF q = p THEN content ELSE files[q]]

\* DATA_DIR.iterdir()
Entries(files) == {q \in DOMAIN files \cup Directories : q.dir = "data"}

\* the listing without the is_file() filter
ListingOfEntries(files) == {p.name : p \in Entries(files)}

\* [f.name for f in DATA_DIR.iterdir() if f.is_file()], as a set
Listing(files) == {p.name : p \in {q \in Entries(files) : PathIsFile(files, q)}}

(***************************************************************************)
(* FTPProtocol.create_response: one JSON line.  data is left out when it   *)
(* is empty.                                                               *)
(***************************************************************************)
NoData == [kind |-> "none", files |-> {}, filename |-> <<>>, size |-> 0, content |-> <<>>]
FilesData(names) == [NoData EXCEPT !.kind = "files", !.files = names]
MetaData(filename, size) ==
    [NoData EXCEPT !.kind = "meta", !.filename = filename, !.size = size]
ContentData(content) == [NoData EXCEPT !.kind = "content", !.content = content]

\* a message text: fixed words, the value formatted into them, the words after it
Text(text, arg, tail) == [text |-> text, arg |-> arg, tail |-> tail]

create_response(status, message, data) ==
    [status |-> status, message |-> message, data |-> data]

Welcome ==
    create_response("OK",
        Text("Welcome to FTP Server. Commands: LS, GET <file>, PUT <file>, EXIT", <<>>, ""),
        NoData)

(***************************************************************************)
(* json.loads of an upload's bytes.  Over the atoms of the model the JSON  *)
(* documents are  {"content":"<characters>"}  and  {} , with blanks        *)
(* around them; a raw line feed is not allowed inside a JSON string.       *)
(***************************************************************************)
JsonChar(a) == a \notin {LF, BAD, JOPEN, JCLOSE, JEMPTY}

JsonHasContent(data) ==
    LET t == Strip(data)
    IN  /\ Len(t) >= 2
        /\ Head(t) = JOPEN
        /\ Last(t) = JCLOSE
        /\ \A i \in 2..(Len(t) - 1) : JsonChar(t[i])

JsonContent(data) == LET t == Strip(data) IN SubSeq(t, 2, Len(t) - 1)

JsonValid(data) == JsonHasContent(data) \/ Strip(data) = <<JEMPTY>>

(***************************************************************************)
(* State.                                                                  *)
(***************************************************************************)
VARIABLES
    pc,        \* per session: where handle_client is
    inbound,   \* per session: bytes the peer sent that the server has not read
    link,      \* per session: "up", "eof" (the peer closed) or "reset"
    hist,      \* per session: the socket operations of handle_client, in order
    sends,     \* per session: what the peer has sent, in order
    local,     \* per session: argument, file_size and the data being written
    fs,        \* the file system: path -> content
    fsAccess,  \* every file system operation made so far, as [op, path]
    logged,    \* per session: the events handed to the logger
    backlog,   \* connections waiting in the listening socket
    stop,      \* the shutdown flag
    mpc,       \* where main is: "check", "accept", "cleanup", "join" or "stopped"
    workers,   \* the list workers of main: the sessions started, in order
    joined,    \* how many of the workers main has waited for
    cpc,       \* FTPClient: where the client program is
    connected, \* FTPClient.connected
    wire,      \* FTPClient: pieces of server messages its socket has not read
    served,    \* FTPClient: the messages the server sent to it, in order
    returned,  \* FTPClient: what the calls of receive_response returned, in order
    calls,     \* FTPClient: the commands called, each with what it returned
    command_str, \* the line given to the two parsers
    parsed     \* what parse_command, CommandParser.parse and validate returned for it

vars == <<pc, inbound, link, hist, sends, local, fs, fsAccess, logged, backlog, stop,
          mpc, workers, joined, cpc, connected, wire, served, returned, calls,
          command_str, parsed>>

parserVars == <<command_str, parsed>>

mainVars == <<mpc, workers, joined>>
serverVars == <<pc, inbound, link, hist, sends, local, fs, fsAccess, logged, backlog, stop,
                mainVars>>
clientVars == <<cpc, connected, wire, served, returned, calls>>

\* nothing has been parsed: each result is a sequence of no or one value
NotParsed == [cmd_data |-> <<>>, pair |-> <<>>, valid |-> <<>>]

NoLocal == [argument |-> <<>>, file_size |-> 0, content |-> <<>>, binary |-> FALSE]

NoMsg == create_response("", Text("", <<>>, ""), NoData)
SendEv(m) == [ev |-> "send", msg |-> m, data |-> <<>>]
RecvEv(data) == [ev |-> "recv", msg |-> NoMsg, data |-> data]
PutRecvEv(data) == [ev |-> "recv_put", msg |-> NoMsg, data |-> data]
SendEvs(msgs) == [i \in 1..Len(msgs) |-> SendEv(msgs[i])]

IsSend(e) == e.ev = "send"
\* the messages a session has sent, in order
Out(s) == LET evs == SelectSeq(hist[s], IsSend) IN [i \in 1..Len(evs) |-> evs[i].msg]

Access(op, p) == [op |-> op, path |-> p]

\* a call of a method of logger
Log(events, ev) == events \cup {ev}

(***************************************************************************)
(* The sample file of setup_server_directory, and what else the disk holds *)
(* when the server starts.                                                 *)
(***************************************************************************)
DataFile(name) == [dir |-> "data", name |-> name]
OutsideFile == [dir |-> "cwd", name |-> <<"e">>]

SampleStore ==
    [p \in {DataFile(<<SampleName>>), OutsideFile} |->
        IF p = OutsideFile THEN <<"s">> ELSE <<SampleText>>]

InitialStores ==
    {SampleStore, WriteFile(SampleStore, DataFile(<<"f">>), <<BLK>>)}

(***************************************************************************)
(* The command loop of handle_client.  A handler gives the messages it     *)
(* sends, where the session goes next, its local variables, the file       *)
(* system operations it makes and the events it logs.                      *)
(***************************************************************************)
Outcome(msgs, next, loc, access, logs) ==
    [msgs |-> msgs, next |-> next, local |-> loc, access |-> access, logs |-> logs]

\* EXIT answered without leaving the loop
HandleExitAndStay ==
    Outcome(<<create_response("OK", Text("Goodbye", <<>>, ""), NoData)>>,
            "LoopTop", NoLocal, {}, {"command"})

HandleExit ==
    Outcome(<<create_response("OK", Text("Goodbye", <<>>, ""), NoData)>>,
            "Closing", NoLocal, {}, {"command"})

HandleLs(files) ==
    LET names == Listing(files)
    IN  Outcome(<<create_response("OK",
                     Text("Files: ", <<ToString(Cardinality(names))>>, ""),
                     FilesData(names))>>,
                "LoopTop", NoLocal, {Access("list", DataFile(<<>>))}, {"command"})

\* GET that answers an absent file with metadata of size 0
HandleGetAbsentAsEmpty(files, argument) ==
    IF argument = <<>>
    THEN Outcome(<<create_response("ERROR", Text("GET requires filename", <<>>, ""), NoData)>>,
                 "LoopTop", NoLocal, {}, {"command"})
    ELSE LET file_path == Resolve(argument)
             file_size == IF PathIsFile(files, file_path)
                          THEN ByteLen(files[file_path]) ELSE 0
         IN  Outcome(<<create_response("OK", Text("Sending ", argument, ""),
                                       MetaData(argument, file_size))>>,
                     IF PathIsFile(files, file_path) THEN "GetRead" ELSE "LoopTop",
                     IF PathIsFile(files, file_path)
                     THEN [NoLocal EXCEPT !.argument = argument, !.file_size = file_size]
                     ELSE NoLocal,
                     {Access("stat", file_path)}, {"command"})

HandleGet(files, argument) ==
    IF argument = <<>>
    THEN Outcome(<<create_response("ERROR", Text("GET requires filename", <<>>, ""), NoData)>>,
                 "LoopTop", NoLocal, {}, {"command"})
    ELSE LET file_path == Resolve(argument)
         IN  IF PathExists(files, file_path) /\ PathIsFile(files, file_path)
             THEN LET file_size == ByteLen(files[file_path])
                  IN  Outcome(<<create_response("OK", Text("Sending ", argument, ""),
                                                MetaData(argument, file_size))>>,
                              "GetRead",
                              [NoLocal EXCEPT !.argument = argument,
                                              !.file_size = file_size],
                              {Access("stat", file_path)}, {"command"})
             ELSE Outcome(<<create_response("ERROR",
                               Text("File not found: ", argument, ""), NoData)>>,
                          "LoopTop", NoLocal,
                          {Access("stat", file_path)}, {"command", "error"})

\* the PUT branch with the READY left out: the payload is awaited unannounced
HandlePutWithoutReady(argument) ==
    IF argument = <<>>
    THEN Outcome(<<create_response("ERROR", Text("PUT requires filename", <<>>, ""), NoData)>>,
                 "LoopTop", NoLocal, {}, {"command"})
    ELSE Outcome(<<>>, "AwaitingPutPayload", [NoLocal EXCEPT !.argument = argument],
                 {}, {"command"})

HandlePut(argument) ==
    IF argument = <<>>
    THEN Outcome(<<create_response("ERROR", Text("PUT requires filename", <<>>, ""), NoData)>>,
                 "LoopTop", NoLocal, {}, {"command"})
    ELSE Outcome(<<create_response("READY", Text("Ready to receive ", argument, ""), NoData)>>,
                 "AwaitingPutPayload", [NoLocal EXCEPT !.argument = argument],
                 {}, {"command"})

\* the unknown-command branch naming no verb
HandleUnknownUnnamed(command) ==
    Outcome(<<create_response("ERROR",
                 Text("Unknown command: ", <<>>, ". Use LS, GET, PUT, or EXIT"),
                 NoData)>>,
            "LoopTop", NoLocal, {}, {"command", "error"})

HandleUnknown(command) ==
    Outcome(<<create_response("ERROR",
                 Text("Unknown command: ", command, ". Use LS, GET, PUT, or EXIT"),
                 NoData)>>,
            "LoopTop", NoLocal, {}, {"command", "error"})

Dispatch(files, data) ==
    LET cmd_data == parse_command(data)
        command == cmd_data.command
        argument == cmd_data.argument
    IN  CASE command = EXIT -> HandleExit
          [] command = LS -> HandleLs(files)
          [] command = GET -> HandleGet(files, argument)
          [] command = PUT -> HandlePut(argument)
          [] OTHER -> HandleUnknown(command)

(***************************************************************************)
(* The second half of GET: the file is read and its content sent.          *)
(***************************************************************************)
GetContent(file_size, file_content) ==
    IF file_size < SmallFileLimit
    THEN IF Utf8(file_content)
         THEN Outcome(<<create_response("FILE_DATA", Text("", <<>>, ""),
                                        ContentData(file_content))>>,
                      "LoopTop", NoLocal, {}, {"download"})
         ELSE Outcome(<<create_response("ERROR",
                           Text("Binary file transfer not yet implemented", <<>>, ""),
                           NoData)>>,
                      "LoopTop", NoLocal, {}, {"error"})
    ELSE Outcome(<<create_response("ERROR",
                      Text("Large file transfer not yet implemented", <<>>, ""),
                      NoData)>>,
                 "LoopTop", NoLocal, {}, {"error"})

(***************************************************************************)
(* The second half of PUT: what was read after READY is parsed and the     *)
(* target is opened for writing, which truncates it.  An exception raised  *)
(* while the bytes are handled as binary data is raised inside an except   *)
(* clause: no clause of the same try catches it, and it ends the session.  *)
(***************************************************************************)
SaveFailed == create_response("ERROR", Text("Failed to save file: ", <<>>, ""), NoData)

PutPayload(argument, file_data) ==
    LET file_path == Resolve(argument)
        opened == {Access("open", file_path)}
    IN  IF ~Utf8(file_data)
        THEN Outcome(<<SaveFailed>>, "LoopTop", NoLocal, {}, {"error"})
        ELSE IF JsonValid(file_data)
        THEN IF JsonHasContent(file_data)
             THEN IF CanOpenForWrite(file_path)
                  THEN Outcome(<<>>, "PutWriting",
                               [NoLocal EXCEPT !.argument = argument,
                                               !.content = JsonContent(file_data)],
                               opened, {})
                  ELSE Outcome(<<SaveFailed>>, "LoopTop", NoLocal, opened, {"error"})
             ELSE Outcome(<<create_response("ERROR",
                               Text("Invalid file data format", <<>>, ""), NoData)>>,
                          "LoopTop", NoLocal, {}, {"error"})
        ELSE IF CanOpenForWrite(file_path)
             THEN Outcome(<<>>, "PutWriting",
                          [NoLocal EXCEPT !.argument = argument,
                                          !.content = file_data,
                                          !.binary = TRUE],
                          opened, {})
             ELSE Outcome(<<>>, "Closing", NoLocal, opened, {"error"})

Saved(argument) ==
    create_response("OK", Text("File ", argument, " saved successfully"), NoData)

(***************************************************************************)
(* The peer of a session: any program at the other end of the connection.  *)
(* It sends command lines whenever it likes, and an upload's bytes in      *)
(* answer to READY, when nothing else it sent is still unread.             *)
(***************************************************************************)
Line(verb, argument) ==
    verb \o (IF argument = <<>> THEN <<>> ELSE <<SP>> \o argument) \o <<LF>>

CommandLines ==
    { Line(LS, <<>>), Line(EXIT, <<>>), Line(HELP, <<>>),
      Line(GET, <<>>), Line(GET, <<"f">>), Line(GET, <<".", ".", "/", "e">>),
      Line(PUT, <<>>), Line(PUT, <<"f">>), Line(PUT, <<"/", "e">>) }

Payloads ==
    { <<JOPEN, "x", JCLOSE>>, <<JOPEN, BLK, JCLOSE>>, <<"x">>, <<BAD>>, <<JEMPTY>>,
      <<BLK4, BLK4, "x">> }

Menu ==
    [bytes : CommandLines, payload : {FALSE}] \cup [bytes : Payloads, payload : {TRUE}]

IsLine(item) == ~item.payload
LinesSent(s) == Len(SelectSeq(sends[s], IsLine))

Connected(s) == pc[s] \notin {"idle", "Closed"}

PeerSendFrom(s, items, lines) ==
    /\ Connected(s)
    /\ link[s] = "up"
    /\ \E item \in items :
        /\ ~item.payload => LinesSent(s) < lines
        /\ item.payload =>
              /\ inbound[s] = <<>>
              /\ Out(s) # <<>>
              /\ Last(Out(s)).status = "READY"
        /\ inbound' = [inbound EXCEPT ![s] = @ \o item.bytes]
        /\ sends' = [sends EXCEPT ![s] = Append(@, item)]
    /\ UNCHANGED <<pc, link, hist, local, fs, fsAccess, logged, backlog, stop, mainVars, clientVars, parserVars>>

PeerSend(s) == PeerSendFrom(s, Menu, MaxLines)

\* the peer closes the connection: the server reads what is left, then end-of-stream
PeerClose(s) ==
    /\ Connected(s)
    /\ link[s] = "up"
    /\ link' = [link EXCEPT ![s] = "eof"]
    /\ UNCHANGED <<pc, inbound, hist, sends, local, fs, fsAccess, logged, backlog, stop, mainVars, clientVars, parserVars>>

\* the connection is reset: what was not read is gone, socket calls raise
PeerReset(s) ==
    /\ Connected(s)
    /\ link[s] = "up"
    /\ link' = [link EXCEPT ![s] = "reset"]
    /\ inbound' = [inbound EXCEPT ![s] = <<>>]
    /\ UNCHANGED <<pc, hist, sends, local, fs, fsAccess, logged, backlog, stop, mainVars, clientVars, parserVars>>

(***************************************************************************)
(* main: the accept loop starts one handle_client per connection.          *)
(***************************************************************************)
\* signal_handler: stop.set()
Signal ==
    /\ ~stop
    /\ mpc # "stopped"
    /\ stop' = TRUE
    /\ UNCHANGED <<pc, inbound, link, hist, sends, local, fs, fsAccess, logged, backlog,
                   mainVars, clientVars, parserVars>>

\* while not stop.is_set()
MainCheck ==
    /\ mpc = "check"
    /\ mpc' = IF stop THEN "cleanup" ELSE "accept"
    /\ UNCHANGED <<pc, inbound, link, hist, sends, local, fs, fsAccess, logged, backlog,
                   stop, workers, joined, clientVars, parserVars>>

\* server_socket.accept() returns a connection: a thread is started and recorded
Accept(s) ==
    /\ mpc = "accept"
    /\ s \in backlog
    /\ backlog' = backlog \ {s}
    /\ pc' = [pc EXCEPT ![s] = "Greeting"]
    /\ workers' = Append(workers, s)
    /\ mpc' = "check"
    /\ UNCHANGED <<inbound, link, hist, sends, local, fs, fsAccess, logged, stop, joined,
                   clientVars, parserVars>>

\* server_socket.accept() raises socket.timeout: continue
AcceptTimeout ==
    /\ mpc = "accept"
    /\ backlog = {}
    /\ mpc' = "check"
    /\ UNCHANGED <<pc, inbound, link, hist, sends, local, fs, fsAccess, logged, backlog,
                   stop, workers, joined, clientVars, parserVars>>

\* finally: server_socket.shutdown(...)
Cleanup ==
    /\ mpc = "cleanup"
    /\ mpc' = "join"
    /\ UNCHANGED <<pc, inbound, link, hist, sends, local, fs, fsAccess, logged, backlog,
                   stop, workers, joined, clientVars, parserVars>>

\* thread.join() without a timeout: it returns when the thread has ended
JoinUntilEnded ==
    /\ mpc = "join"
    /\ joined < Len(workers)
    /\ pc[workers[joined + 1]] = "Closed"
    /\ joined' = joined + 1
    /\ UNCHANGED <<pc, inbound, link, hist, sends, local, fs, fsAccess, logged, backlog,
                   stop, mpc, workers, clientVars, parserVars>>

\* thread.join(timeout=1.0) returns: the thread has ended or the second is over
Join ==
    /\ mpc = "join"
    /\ joined < Len(workers)
    /\ joined' = joined + 1
    /\ UNCHANGED <<pc, inbound, link, hist, sends, local, fs, fsAccess, logged, backlog,
                   stop, mpc, workers, clientVars, parserVars>>

\* the for loop is over: "Server stopped", main returns
MainStop ==
    /\ mpc = "join"
    /\ joined = Len(workers)
    /\ mpc' = "stopped"
    /\ UNCHANGED <<pc, inbound, link, hist, sends, local, fs, fsAccess, logged, backlog,
                   stop, workers, joined, clientVars, parserVars>>

(***************************************************************************)
(* handle_client                                                           *)
(***************************************************************************)
\* conn.sendall(msgs) and what follows it; sendall raises on a reset connection
Finish(s, r, events) ==
    IF r.msgs # <<>> /\ link[s] = "reset"
    THEN /\ pc' = [pc EXCEPT ![s] = "Closing"]
         /\ hist' = [hist EXCEPT ![s] = @ \o events]
         /\ local' = [local EXCEPT ![s] = NoLocal]
         /\ logged' = [logged EXCEPT ![s] = Log(@, "error")]
    ELSE /\ pc' = [pc EXCEPT ![s] = r.next]
         /\ hist' = [hist EXCEPT ![s] = @ \o events \o SendEvs(r.msgs)]
         /\ local' = [local EXCEPT ![s] = r.local]
         /\ logged' = [logged EXCEPT ![s] = @ \cup r.logs]

\* the greeting with the welcome left out: the loop starts with nothing sent
GreetingWithoutWelcome(s) ==
    /\ pc[s] = "Greeting"
    /\ Finish(s, Outcome(<<>>, "LoopTop", NoLocal, {}, {"connection"}), <<>>)
    /\ UNCHANGED <<inbound, link, sends, fs, fsAccess, backlog, stop, mainVars, clientVars, parserVars>>

Greeting(s) ==
    /\ pc[s] = "Greeting"
    /\ Finish(s, Outcome(<<Welcome>>, "LoopTop", NoLocal, {}, {"connection"}), <<>>)
    /\ UNCHANGED <<inbound, link, sends, fs, fsAccess, backlog, stop, mainVars, clientVars, parserVars>>

\* while not stop.is_set()
LoopTop(s) ==
    /\ pc[s] = "LoopTop"
    /\ pc' = [pc EXCEPT ![s] = IF stop THEN "Closing" ELSE "RecvCommand"]
    /\ UNCHANGED <<inbound, link, hist, sends, local, fs, fsAccess, logged, backlog, stop, mainVars, clientVars, parserVars>>

\* a reset that ends the session also sets the shutdown flag
CommandRecvResetStopsAll(s) ==
    /\ pc[s] = "RecvCommand"
    /\ link[s] = "reset"
    /\ pc' = [pc EXCEPT ![s] = "Closing"]
    /\ logged' = [logged EXCEPT ![s] = Log(@, "error")]
    /\ stop' = TRUE
    /\ UNCHANGED <<inbound, link, hist, sends, local, fs, fsAccess, backlog, mainVars, clientVars, parserVars>>

\* conn.recv(4096) raises
CommandRecvReset(s) ==
    /\ pc[s] = "RecvCommand"
    /\ link[s] = "reset"
    /\ pc' = [pc EXCEPT ![s] = "Closing"]
    /\ logged' = [logged EXCEPT ![s] = Log(@, "error")]
    /\ UNCHANGED <<inbound, link, hist, sends, local, fs, fsAccess, backlog, stop, mainVars, clientVars, parserVars>>

\* conn.recv(4096) returns no data
CommandRecvEof(s) ==
    /\ pc[s] = "RecvCommand"
    /\ link[s] = "eof"
    /\ inbound[s] = <<>>
    /\ pc' = [pc EXCEPT ![s] = "Closing"]
    /\ UNCHANGED <<inbound, link, hist, sends, local, fs, fsAccess, logged, backlog, stop, mainVars, clientVars, parserVars>>

\* the command loop under a lock that an upload in another session holds
CommandUnderLock(s) ==
    /\ pc[s] = "RecvCommand"
    /\ link[s] # "reset"
    /\ \A t \in Sessions \ {s} : pc[t] \notin {"AwaitingPutPayload", "PutWriting"}
    /\ \E k \in RecvCuts(inbound[s], CmdRecvMax) :
        LET data == Take(inbound[s], k)
            r == Dispatch(fs, data)
        IN  /\ inbound' = [inbound EXCEPT ![s] = Drop(@, k)]
            /\ fsAccess' = fsAccess \cup r.access
            /\ Finish(s, r, <<RecvEv(data)>>)
    /\ UNCHANGED <<link, sends, fs, backlog, stop, mainVars, clientVars, parserVars>>

\* conn.recv(4096) returns data: one command is parsed and handled
Command(s) ==
    /\ pc[s] = "RecvCommand"
    /\ link[s] # "reset"
    /\ \E k \in RecvCuts(inbound[s], CmdRecvMax) :
        LET data == Take(inbound[s], k)
            r == Dispatch(fs, data)
        IN  /\ inbound' = [inbound EXCEPT ![s] = Drop(@, k)]
            /\ fsAccess' = fsAccess \cup r.access
            /\ Finish(s, r, <<RecvEv(data)>>)
    /\ UNCHANGED <<link, sends, fs, backlog, stop, mainVars, clientVars, parserVars>>

GetRead(s) ==
    /\ pc[s] = "GetRead"
    /\ LET file_path == Resolve(local[s].argument)
       IN  /\ fsAccess' = fsAccess \cup {Access("read", file_path)}
           /\ Finish(s, GetContent(local[s].file_size, fs[file_path]), <<>>)
    /\ UNCHANGED <<inbound, link, sends, fs, backlog, stop, mainVars, clientVars, parserVars>>

\* conn.recv(8192) raises
PutRecvReset(s) ==
    /\ pc[s] = "AwaitingPutPayload"
    /\ link[s] = "reset"
    /\ pc' = [pc EXCEPT ![s] = "Closing"]
    /\ local' = [local EXCEPT ![s] = NoLocal]
    /\ logged' = [logged EXCEPT ![s] = Log(@, "error")]
    /\ UNCHANGED <<inbound, link, hist, sends, fs, fsAccess, backlog, stop, mainVars, clientVars, parserVars>>

\* the end of the stream taken for an empty upload
PutRecvEofStoresEmpty(s) ==
    /\ pc[s] = "AwaitingPutPayload"
    /\ link[s] = "eof"
    /\ inbound[s] = <<>>
    /\ fs' = WriteFile(fs, Resolve(local[s].argument), <<>>)
    /\ Finish(s, Outcome(<<>>, "PutWriting", local[s], {}, {}), <<PutRecvEv(<<>>)>>)
    /\ UNCHANGED <<inbound, link, sends, fsAccess, backlog, stop, mainVars, clientVars, parserVars>>

\* conn.recv(8192) returns no data
PutRecvEof(s) ==
    /\ pc[s] = "AwaitingPutPayload"
    /\ link[s] = "eof"
    /\ inbound[s] = <<>>
    /\ Finish(s, Outcome(<<create_response("ERROR",
                              Text("No file data received", <<>>, ""), NoData)>>,
                         "LoopTop", NoLocal, {}, {"error"}),
              <<PutRecvEv(<<>>)>>)
    /\ UNCHANGED <<inbound, link, sends, fs, fsAccess, backlog, stop, mainVars, clientVars, parserVars>>

\* conn.recv(8192) returns data
PutRecv(s) ==
    /\ pc[s] = "AwaitingPutPayload"
    /\ link[s] # "reset"
    /\ \E k \in RecvCuts(inbound[s], PutRecvMax) :
        LET file_data == Take(inbound[s], k)
            r == PutPayload(local[s].argument, file_data)
            file_path == Resolve(local[s].argument)
        IN  /\ inbound' = [inbound EXCEPT ![s] = Drop(@, k)]
            /\ fsAccess' = fsAccess \cup r.access
            /\ fs' = IF r.next = "PutWriting" THEN WriteFile(fs, file_path, <<>>) ELSE fs
            /\ Finish(s, r, <<PutRecvEv(file_data)>>)
    /\ UNCHANGED <<link, sends, backlog, stop, mainVars, clientVars, parserVars>>

\* the data is written to the open file, the file closed and OK sent
PutWrite(s) ==
    /\ pc[s] = "PutWriting"
    /\ LET file_path == Resolve(local[s].argument)
       IN  /\ fs' = WriteFile(fs, file_path, local[s].content)
           /\ fsAccess' = fsAccess \cup {Access("write", file_path)}
           /\ Finish(s, Outcome(<<Saved(local[s].argument)>>, "LoopTop", NoLocal,
                                {}, {"upload"}), <<>>)
    /\ UNCHANGED <<inbound, link, sends, backlog, stop, mainVars, clientVars, parserVars>>

\* the write fails part-way (an I/O error, a full disk)
PutWriteFail(s) ==
    /\ pc[s] = "PutWriting"
    /\ LET file_path == Resolve(local[s].argument)
       IN  /\ \E n \in 0..(Len(local[s].content) - 1) :
                fs' = WriteFile(fs, file_path, Take(local[s].content, n))
           /\ fsAccess' = fsAccess \cup {Access("write", file_path)}
           /\ IF local[s].binary
              THEN Finish(s, Outcome(<<>>, "Closing", NoLocal, {}, {"error"}), <<>>)
              ELSE Finish(s, Outcome(<<SaveFailed>>, "LoopTop", NoLocal, {}, {"error"}), <<>>)
    /\ UNCHANGED <<inbound, link, sends, backlog, stop, mainVars, clientVars, parserVars>>

\* the with block closes the socket; the thread ends
Close(s) ==
    /\ pc[s] = "Closing"
    /\ pc' = [pc EXCEPT ![s] = "Closed"]
    /\ logged' = [logged EXCEPT ![s] = Log(@, "disconnect")]
    /\ UNCHANGED <<inbound, link, hist, sends, local, fs, fsAccess, backlog, stop, mainVars, clientVars, parserVars>>

(***************************************************************************)
(* One connection served by one session.                                   *)
(***************************************************************************)
Init ==
    /\ pc = [s \in Sessions |-> "idle"]
    /\ inbound = [s \in Sessions |-> <<>>]
    /\ link = [s \in Sessions |-> "up"]
    /\ hist = [s \in Sessions |-> <<>>]
    /\ sends = [s \in Sessions |-> <<>>]
    /\ local = [s \in Sessions |-> NoLocal]
    /\ fs \in InitialStores
    /\ fsAccess = {}
    /\ logged = [s \in Sessions |-> {}]
    /\ backlog = {1}
    /\ stop = FALSE
    /\ mpc = "accept"
    /\ workers = <<>>
    /\ joined = 0
    /\ cpc = "off"
    /\ connected = FALSE
    /\ wire = <<>>
    /\ served = <<>>
    /\ returned = <<>>
    /\ calls = <<>>
    /\ command_str = <<>>
    /\ parsed = NotParsed

Next ==
    \E s \in Sessions :
        \/ Accept(s)
        \/ Greeting(s)
        \/ LoopTop(s)
        \/ CommandRecvReset(s)
        \/ CommandRecvEof(s)
        \/ Command(s)
        \/ GetRead(s)
        \/ PutRecvReset(s)
        \/ PutRecvEof(s)
        \/ PutRecv(s)
        \/ PutWrite(s)
        \/ PutWriteFail(s)
        \/ Close(s)
        \/ PeerSend(s)
        \/ PeerClose(s)
        \/ PeerReset(s)

Spec == Init /\ [][Next]_vars

(***************************************************************************)
(* The whole server: main with its accept loop and its shutdown, the       *)
(* signal, and a session for every connection.  main and the sessions are  *)
(* threads of one process; the sessions are daemon threads, which end when *)
(* main has returned.  SpecFair adds that each thread takes a step when it *)
(* can: the accept and the join of main return after a second at the       *)
(* latest, and a session that is not waiting for its peer goes on.         *)
(***************************************************************************)
MaxLinesEach == 1

\* what the peer of a session sends: the first connection uploads, the others list
ItemsOf(s) ==
    IF s = 1
    THEN [bytes : {Line(PUT, <<"f">>)}, payload : {FALSE}]
            \cup [bytes : {<<JOPEN, "x", JCLOSE>>}, payload : {TRUE}]
    ELSE [bytes : {Line(LS, <<>>)}, payload : {FALSE}]

PeerSendFew(s) == PeerSendFrom(s, ItemsOf(s), MaxLinesEach)

Running == mpc # "stopped"

Session(s) ==
    /\ Running
    /\ \/ Greeting(s)
       \/ LoopTop(s)
       \/ CommandRecvReset(s)
       \/ CommandRecvEof(s)
       \/ Command(s)
       \/ GetRead(s)
       \/ PutRecvReset(s)
       \/ PutRecvEof(s)
       \/ PutRecv(s)
       \/ PutWrite(s)
       \/ PutWriteFail(s)
       \/ Close(s)

\* the accept loop of main
MainLoop ==
    \/ MainCheck
    \/ \E s \in Sessions : Accept(s)
    \/ AcceptTimeout

\* the finally clause of main
MainEnd ==
    \/ Cleanup
    \/ Join
    \/ MainStop

Main == MainLoop \/ MainEnd

InitMain(connections) ==
    /\ pc = [s \in Sessions |-> "idle"]
    /\ inbound = [s \in Sessions |-> <<>>]
    /\ link = [s \in Sessions |-> "up"]
    /\ hist = [s \in Sessions |-> <<>>]
    /\ sends = [s \in Sessions |-> <<>>]
    /\ local = [s \in Sessions |-> NoLocal]
    /\ fs = SampleStore
    /\ fsAccess = {}
    /\ logged = [s \in Sessions |-> {}]
    /\ backlog = connections
    /\ stop = FALSE
    /\ mpc = "check"
    /\ workers = <<>>
    /\ joined = 0
    /\ cpc = "off"
    /\ connected = FALSE
    /\ wire = <<>>
    /\ served = <<>>
    /\ returned = <<>>
    /\ calls = <<>>
    /\ command_str = <<>>
    /\ parsed = NotParsed

Connection(s) ==
    \/ Session(s)
    \/ PeerSendFew(s)
    \/ PeerClose(s)
    \/ PeerReset(s)

\* the server as long as no signal arrives
NextServing ==
    \/ MainLoop
    \/ \E s \in Sessions : Connection(s)

NextServer ==
    \/ Signal
    \/ Main
    \/ \E s \in Sessions : Connection(s)

\* every session has a connection pending
InitServer == InitMain(Sessions)

SpecServer == InitServer /\ [][NextServing]_vars

\* one connection, and the threads scheduled fairly
InitOne == InitMain({1})

SpecFair ==
    /\ InitOne
    /\ [][NextServer]_vars
    /\ WF_vars(Main)
    /\ \A s \in Sessions : WF_vars(Session(s))

(***************************************************************************)
(* One connection that uploads, as text or as binary data, while a signal  *)
(* may arrive.                                                             *)
(***************************************************************************)
UploadItems ==
    [bytes : {Line(PUT, <<"f">>)}, payload : {FALSE}]
        \cup [bytes : {<<JOPEN, "x", JCLOSE>>, <<"x">>}, payload : {TRUE}]

PeerSendUpload(s) == PeerSendFrom(s, UploadItems, MaxLinesEach)

NextUpload ==
    \/ Signal
    \/ Main
    \/ \E s \in Sessions :
          \/ Session(s)
          \/ PeerSendUpload(s)
          \/ PeerClose(s)
          \/ PeerReset(s)

SpecUpload == InitOne /\ [][NextUpload]_vars

(***************************************************************************)
(* Two connections on the sample file: the first replaces it by an upload, *)
(* the second downloads it.                                                *)
(***************************************************************************)
SameFileItems(s) ==
    IF s = 1
    THEN [bytes : {Line(PUT, <<SampleName>>)}, payload : {FALSE}]
            \cup [bytes : {<<JOPEN, "x", JCLOSE>>}, payload : {TRUE}]
    ELSE [bytes : {Line(GET, <<SampleName>>)}, payload : {FALSE}]

PeerSendSameFile(s) == PeerSendFrom(s, SameFileItems(s), MaxLinesEach)

NextSameFile ==
    \/ MainLoop
    \/ \E s \in Sessions :
          \/ Session(s)
          \/ PeerSendSameFile(s)
          \/ PeerClose(s)
          \/ PeerReset(s)

SpecSameFile == InitServer /\ [][NextSameFile]_vars

(***************************************************************************)
(* FTPClient.  The lines the server sends reach the client's socket whole  *)
(* or in two pieces; a read returns a non-empty prefix of the pieces that  *)
(* have arrived (the lines of the model are far shorter than the 8192      *)
(* bytes receive_response asks for).                                       *)
(***************************************************************************)
Piece(m, part) == [msg |-> m, part |-> part]
Pieces(m) == { <<Piece(m, "whole")>>, <<Piece(m, "head"), Piece(m, "tail")>> }

\* data.decode().strip().split("\n"): is the first line one whole JSON document
FirstLineWhole(data) ==
    \/ data[1].part = "whole"
    \/ /\ Len(data) >= 2
       /\ data[1].part = "head"
       /\ data[2] = Piece(data[1].msg, "tail")

\* receive_response on the data one recv returned: the first line parsed, or
\* None (NoMsg) when it is not JSON; the lines after the first are dropped
receive_response(data) == IF FirstLineWhole(data) THEN data[1].msg ELSE NoMsg

\* send_command: the body is `pass`: nothing is sent and None is returned
send_command(command) == [sent |-> <<>>, result |-> FALSE]

\* messages of the server, as the handlers build them
Replies ==
    { HandleLs(SampleStore).msgs[1],
      HandleGet(SampleStore, <<SampleName>>).msgs[1],
      GetContent(ByteLen(<<SampleText>>), <<SampleText>>).msgs[1],
      HandleExit.msgs[1] }

\* socket.create_connection in connect
ClientConnect ==
    /\ cpc = "off"
    /\ cpc' = "connecting"
    /\ connected' = TRUE
    /\ UNCHANGED <<wire, served, returned, calls, serverVars, parserVars>>

\* the session serving the client sends a message: the welcome first
ServerEmit ==
    /\ cpc # "off"
    /\ Len(served) < MaxServed
    /\ \E m \in (IF served = <<>> THEN {Welcome} ELSE Replies) :
         \E pcs \in Pieces(m) :
            /\ wire' = wire \o pcs
            /\ served' = Append(served, m)
    /\ UNCHANGED <<cpc, connected, returned, calls, serverVars, parserVars>>

\* connect: response = self.receive_response()
ConnectReceive ==
    /\ cpc = "connecting"
    /\ \E k \in 1..Len(wire) :
         LET response == receive_response(Take(wire, k))
         IN  /\ wire' = Drop(wire, k)
             /\ returned' = Append(returned, response)
             /\ cpc' = IF response # NoMsg THEN "prompt" ELSE "failed"
    /\ UNCHANGED <<connected, served, calls, serverVars, parserVars>>

\* a further call of receive_response on the connected client
ReceiveResponse ==
    /\ cpc = "prompt"
    /\ \E k \in 1..Len(wire) :
         /\ wire' = Drop(wire, k)
         /\ returned' = Append(returned, receive_response(Take(wire, k)))
    /\ UNCHANGED <<cpc, connected, served, calls, serverVars, parserVars>>

\* command_ls, command_get, command_put, command_exit: each returns False
\* when send_command returns a false value
ClientCommand ==
    /\ cpc = "prompt"
    /\ Len(calls) < MaxCalls
    /\ \E command \in {LS, GET \o <<SP, "f">>, PUT \o <<SP, "f">>, EXIT} :
         LET r == send_command(command)
         IN  /\ ~r.result
             /\ calls' = Append(calls, [command |-> command, sent |-> r.sent,
                                        result |-> FALSE])
             /\ cpc' = IF command = EXIT THEN "leaving" ELSE cpc
    /\ UNCHANGED <<connected, wire, served, returned, serverVars, parserVars>>

\* main: if client.connected: client.disconnect()
ClientDisconnect ==
    /\ cpc \in {"leaving", "failed"}
    /\ cpc' = "closed"
    /\ connected' = FALSE
    /\ UNCHANGED <<wire, served, returned, calls, serverVars, parserVars>>

NextClient ==
    \/ ClientConnect
    \/ ServerEmit
    \/ ConnectReceive
    \/ ReceiveResponse
    \/ ClientCommand
    \/ ClientDisconnect

SpecClient == Init /\ [][NextClient]_vars

(***************************************************************************)
(* The two parsers on their own.  A line is blanks, a word, blanks, an     *)
(* argument and a line end, each of them possibly missing; the bytes of a  *)
(* line are given to parse_command, and the text they decode to, when they *)
(* decode, to CommandParser.parse, whose command validate then judges.     *)
(***************************************************************************)
Words ==
    { LS, GET, PUT, EXIT, HELP, CD, PWD, MKDIR, DELETE,
      <<"l", "s">>, <<"L", "s">>, <<"f">>, <<>> }

Arguments == { <<>>, <<"f">>, <<"f", SP, "x">>, <<"f", SP, SP, "x">>, <<BAD>> }

InputLines ==
    { lead \o word \o sep \o arg \o trail :
        lead \in {<<>>, <<SP>>}, word \in Words, sep \in {<<>>, <<SP>>, <<SP, SP>>},
        arg \in Arguments, trail \in {<<>>, <<LF>>, <<SP, LF>>} }

\* protocol.parse_command(data)
ParseCommand ==
    /\ parsed.cmd_data = <<>>
    /\ parsed' = [parsed EXCEPT !.cmd_data = <<parse_command(command_str)>>]
    /\ UNCHANGED <<command_str, serverVars, clientVars>>

\* CommandParser.parse(command_str), on the text the bytes decode to
ParserParse ==
    /\ parsed.pair = <<>>
    /\ Utf8(command_str)
    /\ parsed' = [parsed EXCEPT !.pair = <<CommandParser_parse(command_str)>>]
    /\ UNCHANGED <<command_str, serverVars, clientVars>>

\* CommandParser.validate(command), on the command parse returned
Validate ==
    /\ parsed.pair # <<>>
    /\ parsed.valid = <<>>
    /\ parsed' = [parsed EXCEPT !.valid = <<validate(parsed.pair[1].command)>>]
    /\ UNCHANGED <<command_str, serverVars, clientVars>>

InitParser ==
    /\ pc = [s \in Sessions |-> "idle"]
    /\ inbound = [s \in Sessions |-> <<>>]
    /\ link = [s \in Sessions |-> "up"]
    /\ hist = [s \in Sessions |-> <<>>]
    /\ sends = [s \in Sessions |-> <<>>]
    /\ local = [s \in Sessions |-> NoLocal]
    /\ fs = SampleStore
    /\ fsAccess = {}
    /\ logged = [s \in Sessions |-> {}]
    /\ backlog = {}
    /\ stop = FALSE
    /\ mpc = "accept"
    /\ workers = <<>>
    /\ joined = 0
    /\ cpc = "off"
    /\ connected = FALSE
    /\ wire = <<>>
    /\ served = <<>>
    /\ returned = <<>>
    /\ calls = <<>>
    /\ command_str \in InputLines
    /\ parsed = NotParsed

NextParser ==
    \/ ParseCommand
    \/ ParserParse
    \/ Validate

SpecParser == InitParser /\ [][NextParser]_vars

(***************************************************************************)
(* What the claims speak of.                                               *)
(***************************************************************************)
IsRecv(e) == e.ev = "recv"
IsPutRecv(e) == e.ev = "recv_put"
IsPrefix(a, b) == Len(a) <= Len(b) /\ a = Take(b, Len(a))

\* the events a step adds to the history of session s
NewEvents(s) == SubSeq(hist'[s], Len(hist[s]) + 1, Len(hist'[s]))

\* the number of atoms the first n socket reads of a history returned
RECURSIVE ReadLen(_, _)
ReadLen(h, n) == IF n = 0 THEN 0 ELSE Len(h[n].data) + ReadLen(h, n - 1)

\* for every atom the peer sent, in order: is it part of an upload's payload
RECURSIVE PayloadFlags(_)
PayloadFlags(items) ==
    IF items = <<>> THEN <<>>
    ELSE [i \in 1..Len(Head(items).bytes) |-> Head(items).payload]
            \o PayloadFlags(Tail(items))

\* the commands the command loop has dispatched, in order
Dispatched(s) ==
    LET reads == SelectSeq(hist[s], IsRecv)
    IN  [i \in 1..Len(reads) |-> parse_command(reads[i].data)]

\* the commands of the lines sent, one per line, up to the first EXIT
RECURSIVE LineByLine(_)
LineByLine(items) ==
    IF items = <<>> THEN <<>>
    ELSE LET c == parse_command(Head(items).bytes)
         IN  IF c.command = EXIT THEN <<c>> ELSE <<c>> \o LineByLine(Tail(items))

\* the content an upload asks to store: the JSON content, or the bytes as they are
UploadContent(data) == IF JsonHasContent(data) THEN JsonContent(data) ELSE data

\* the file data of every upload read so far
UploadContents ==
    UNION { {UploadContent(hist[s][i].data) :
                i \in {j \in 1..Len(hist[s]) : IsPutRecv(hist[s][j])}} : s \in Sessions }

\* what a path can have held when the server started
PriorContents(p) == {st[p] : st \in {x \in InitialStores : p \in DOMAIN x}}

(***************************************************************************)
(* C1.  The first socket operation of a session is the sending of the      *)
(* welcome message: nothing is read or sent before it, it is sent once,    *)
(* and the step that sends it takes the session to the top of the command  *)
(* loop (on a connection that is already reset the send raises instead,    *)
(* and the session ends having sent nothing).                              *)
(***************************************************************************)
C1_Inv ==
    \A s \in Sessions :
        /\ pc[s] \in {"idle", "Greeting"} => hist[s] = <<>>
        /\ hist[s] # <<>> => hist[s][1] = SendEv(Welcome)
        /\ \A i \in 2..Len(hist[s]) : hist[s][i] # SendEv(Welcome)

C1_Step ==
    \A s \in Sessions :
        (pc[s] = "Greeting" /\ pc'[s] # "Greeting") =>
            \/ pc'[s] = "LoopTop" /\ hist'[s] = <<SendEv(Welcome)>>
            \/ link[s] = "reset" /\ pc'[s] = "Closing" /\ hist'[s] = <<>>

C2_Step ==
    \A s \in Sessions :
        LET new == NewEvents(s)
        IN  /\ ( /\ new # <<>>
                 /\ IsRecv(new[1])
                 /\ parse_command(new[1].data).command = PUT
                 /\ parse_command(new[1].data).argument # <<>> )
                => /\ Len(new) = 2
                   /\ new[2].ev = "send"
                   /\ new[2].msg.status = "READY"
                   /\ pc'[s] = "AwaitingPutPayload"
            /\ (new # <<>> /\ IsPutRecv(new[1]))
                => /\ pc[s] = "AwaitingPutPayload"
                   /\ hist[s] # <<>>
                   /\ Last(hist[s]).ev = "send"
                   /\ Last(hist[s]).msg.status = "READY"

C3_NoPayloadAsCommand ==
    \A s \in Sessions : \A i \in 1..Len(hist[s]) :
        IsRecv(hist[s][i]) =>
            \A p \in (ReadLen(hist[s], i - 1) + 1)..ReadLen(hist[s], i) :
                ~PayloadFlags(sends[s])[p]

(***************************************************************************)
(* C4.  The metadata of a GET (OK with filename and size) is followed by   *)
(* the content of the file, of the size the metadata gives.                *)
(***************************************************************************)
C4_GetSendsContent ==
    \A s \in Sessions : \A i \in 1..(Len(hist[s]) - 1) :
        (hist[s][i].ev = "send" /\ hist[s][i].msg.data.kind = "meta") =>
            /\ hist[s][i + 1].ev = "send"
            /\ hist[s][i + 1].msg.status = "FILE_DATA"
            /\ ByteLen(hist[s][i + 1].msg.data.content) = hist[s][i].msg.data.size

(***************************************************************************)
(* C5.  After an upload to a name of the data root was read whole and      *)
(* answered with OK, an LS that follows lists the name, and a GET of the   *)
(* name that follows gives the size and the content of the upload.         *)
(***************************************************************************)
C5_PutThenGet ==
    \A s \in Sessions : \A i \in 2..(Len(hist[s]) - 3) :
        LET h == hist[s]
            n == h[i + 1].msg.message.arg
            c == UploadContent(h[i].data)
            cmd == parse_command(h[i + 2].data)
        IN  ( /\ IsPutRecv(h[i])
              /\ \E j \in 1..Len(sends[s]) :
                    sends[s][j].payload /\ sends[s][j].bytes = h[i].data
              /\ h[i + 1] = SendEv(Saved(n))
              /\ Resolve(n) = DataFile(n)
              /\ IsRecv(h[i + 2]) )
            => /\ cmd.command = LS => n \in h[i + 3].msg.data.files
               /\ (cmd.command = GET /\ cmd.argument = n) =>
                    /\ h[i + 3].msg.data = MetaData(n, ByteLen(c))
                    /\ i + 4 <= Len(h) =>
                          /\ h[i + 4].msg.status = "FILE_DATA"
                          /\ h[i + 4].msg.data.content = c

(***************************************************************************)
(* C6.  When all the command lines a peer sent (no PUT among them) have    *)
(* been read, the commands dispatched are those of the lines, one per      *)
(* line, however the reads cut the stream.                                 *)
(***************************************************************************)
NoUpload(items) ==
    \A j \in 1..Len(items) :
        ~items[j].payload /\ parse_command(items[j].bytes).command # PUT

C6_FramingRobust ==
    \A s \in Sessions :
        ( /\ link[s] = "up"
          /\ NoUpload(sends[s])
          /\ \/ pc[s] = "RecvCommand" /\ inbound[s] = <<>>
             \/ pc[s] = "Closed" )
        => Dispatched(s) = LineByLine(sends[s])

(***************************************************************************)
(* C7.  The calls of receive_response return the messages the server sent, *)
(* each once and in order, and none is lost.                               *)
(***************************************************************************)
IsResponse(m) == m # NoMsg

C7_EveryMessageReturned ==
    LET got == SelectSeq(returned, IsResponse)
    IN  /\ IsPrefix(got, served)
        /\ wire = <<>> => got = served

(***************************************************************************)
(* C8.  No file system operation of a session is on a path outside the     *)
(* data root.                                                              *)
(***************************************************************************)
C8_PathContainment == \A a \in fsAccess : InsideRoot(a.path)

(***************************************************************************)
(* C9.  When the bytes read for an upload come from a payload of more than *)
(* PutRecvMax bytes, the answer is ERROR and no file is written.           *)
(***************************************************************************)
C9_OversizeRejected ==
    \A s \in Sessions : \A i \in 1..Len(hist[s]) :
        ( /\ IsPutRecv(hist[s][i])
          /\ hist[s][i].data # <<>>
          /\ \E j \in 1..Len(sends[s]) :
                /\ sends[s][j].payload
                /\ ByteLen(sends[s][j].bytes) > PutRecvMax
                /\ IsPrefix(hist[s][i].data, sends[s][j].bytes) )
        => /\ i = Len(hist[s]) => pc[s] # "PutWriting"
           /\ i < Len(hist[s]) => hist[s][i + 1].msg.status = "ERROR"

(***************************************************************************)
(* C10.  Every file holds what it held when the server started or the      *)
(* complete file data of one upload.                                       *)
(***************************************************************************)
C10_AtomicWrite ==
    \A p \in DOMAIN fs : fs[p] \in PriorContents(p) \cup UploadContents

\* the first event of a step is a read of the command loop that parsed to cmd
Dispatches(new, verbs) ==
    /\ new # <<>>
    /\ IsRecv(new[1])
    /\ parse_command(new[1].data).command \in verbs

\* the names of the regular files of the data root
RootFiles(files) == {p.name : p \in {q \in DOMAIN files : InsideRoot(q)}}

(***************************************************************************)
(* C11.  A step of the command loop that reads EXIT sends OK "Goodbye" and *)
(* nothing else and leaves the loop; the Goodbye is the last socket        *)
(* operation of the session: from then on it sends nothing, reads nothing, *)
(* and the only step left is the closing of the socket.                    *)
(***************************************************************************)
Goodbye == create_response("OK", Text("Goodbye", <<>>, ""), NoData)

C11_Inv ==
    \A s \in Sessions : \A i \in 1..Len(hist[s]) :
        hist[s][i] = SendEv(Goodbye) =>
            /\ i = Len(hist[s])
            /\ pc[s] \in {"Closing", "Closed"}

C11_Step ==
    \A s \in Sessions :
        /\ Dispatches(NewEvents(s), {EXIT}) =>
              /\ NewEvents(s) = <<NewEvents(s)[1], SendEv(Goodbye)>>
              /\ pc'[s] = "Closing"
        /\ pc[s] = "Closing" => pc'[s] \in {"Closing", "Closed"} /\ hist'[s] = hist[s]
        /\ pc[s] = "Closed" => pc'[s] = "Closed" /\ hist'[s] = hist[s]

NoRootFiles == [p \in {OutsideFile} |-> <<"s">>]

C12_Step ==
    \A s \in Sessions :
        LET new == NewEvents(s)
        IN  Dispatches(new, {LS}) =>
              /\ Len(new) = 2
              /\ new[2].ev = "send"
              /\ new[2].msg.status = "OK"
              /\ new[2].msg.data = FilesData(RootFiles(fs))
              /\ pc'[s] = "LoopTop"
              /\ fs' = fs

C12_EmptyRoot ==
    /\ Len(HandleLs(NoRootFiles).msgs) = 1
    /\ HandleLs(NoRootFiles).msgs[1].status = "OK"
    /\ HandleLs(NoRootFiles).msgs[1].data = FilesData({})
    /\ HandleLs(NoRootFiles).next = "LoopTop"

FileNotFound(name) == create_response("ERROR", Text("File not found: ", name, ""), NoData)

AbsentFromRoot(files, argument) ==
    /\ argument # <<>>
    /\ InsideRoot(Resolve(argument))
    /\ Resolve(argument) \notin DOMAIN files

C13_Step ==
    \A s \in Sessions :
        LET new == NewEvents(s)
            argument == parse_command(new[1].data).argument
        IN  (Dispatches(new, {GET}) /\ AbsentFromRoot(fs, argument)) =>
              /\ new = <<new[1], SendEv(FileNotFound(argument))>>
              /\ pc'[s] = "LoopTop"
              /\ fs' = fs

RequiresAFilename(verb) ==
    create_response("ERROR",
        Text(IF verb = GET THEN "GET requires a filename" ELSE "PUT requires a filename",
             <<>>, ""),
        NoData)

C14_MissingArgument ==
    \A s \in Sessions : \A i \in 1..(Len(hist[s]) - 1) :
        LET cmd == parse_command(hist[s][i].data)
        IN  (IsRecv(hist[s][i]) /\ cmd.command \in {GET, PUT} /\ cmd.argument = <<>>) =>
                hist[s][i + 1] = SendEv(RequiresAFilename(cmd.command))

(***************************************************************************)
(* C15.  A step of the command loop that reads a verb other than LS, GET,  *)
(* PUT and EXIT (HELP, the empty verb of a blank line, ...) sends one      *)
(* ERROR, "Unknown command: <verb>. Use LS, GET, PUT, or EXIT" with the    *)
(* verb in upper case, and nothing else, goes back to the top of the loop  *)
(* and leaves the store as it is.                                          *)
(***************************************************************************)
UnknownCommand(verb) ==
    create_response("ERROR",
        Text("Unknown command: ", verb, ". Use LS, GET, PUT, or EXIT"), NoData)

\* the first word of the bytes read, <<>> when there is none or they are not text
Verb(data) ==
    IF Utf8(data) /\ SplitMax1(Strip(data)) # <<>> THEN SplitMax1(Strip(data))[1] ELSE <<>>

C15_Step ==
    \A s \in Sessions :
        LET new == NewEvents(s)
        IN  (new # <<>> /\ IsRecv(new[1]) /\ Upper(Verb(new[1].data)) \notin {LS, GET, PUT, EXIT}) =>
              /\ new = <<new[1], SendEv(UnknownCommand(Upper(Verb(new[1].data))))>>
              /\ pc'[s] = "LoopTop"
              /\ fs' = fs

AtEnd(s) == link[s] # "up" /\ inbound[s] = <<>>

ReadFails(s) == pc[s] \in {"RecvCommand", "AwaitingPutPayload"} /\ AtEnd(s)

C16_Step ==
    \A s \in Sessions :
        (AtEnd(s) /\ pc[s] \in {"LoopTop", "RecvCommand", "AwaitingPutPayload",
                                "Closing", "Closed"}) =>
            /\ \A i \in 1..Len(NewEvents(s)) :
                  NewEvents(s)[i].ev = "send" \/ NewEvents(s)[i].data = <<>>
            /\ pc'[s] \in {"LoopTop", "RecvCommand", "AwaitingPutPayload",
                           "Closing", "Closed"}
            /\ pc[s] \in {"Closing", "Closed"} => pc'[s] \in {"Closing", "Closed"}
            /\ pc[s] # "AwaitingPutPayload" => pc'[s] # "AwaitingPutPayload"

MidUpload(s) == pc[s] \in {"AwaitingPutPayload", "PutWriting"}

Ended(s) == pc[s] \in {"Closing", "Closed"}

C18_Step ==
    \A s \in Sessions :
        (~Ended(s) /\ Ended(s)') =>
            /\ \A t \in Sessions \ {s} :
                  /\ pc'[t] = pc[t]
                  /\ hist'[t] = hist[t]
                  /\ local'[t] = local[t]
                  /\ link'[t] = link[t]
                  /\ inbound'[t] = inbound[t]
            /\ UNCHANGED <<stop, backlog, mainVars>>

C18_Inv ==
    \A s \in Sessions :
        (Ended(s) /\ Running) =>
            /\ \A t \in Sessions \ {s} :
                  (pc[t] = "RecvCommand" /\ link[t] # "reset" /\ inbound[t] # <<>>)
                      => ENABLED Session(t)
            /\ (mpc = "accept" /\ backlog # {}) => ENABLED (\E t \in Sessions : Accept(t))

C19_Step == stop => (workers' = workers /\ backlog' = backlog)

C19_NoAcceptAfterStop == [][C19_Step]_vars

(***************************************************************************)
(* C20.  Once the shutdown flag is set, main leaves the accept loop, waits *)
(* for each recorded worker (a bounded time each) and stops, whether the   *)
(* workers have ended or not.                                              *)
(***************************************************************************)
C20_Inv == mpc = "stopped" => (stop /\ joined = Len(workers))

Grammar == {LS, GET, PUT, EXIT, HELP}

C22_ValidateGrammar ==
    parsed.valid # <<>> => (parsed.valid[1] <=> parsed.pair[1].command \in Grammar)

(***************************************************************************)
(* C24.  For every line that is text, parse_command on its bytes and       *)
(* CommandParser.parse on the text return the same pair: the first word of *)
(* the line in upper case, and what follows the word without the blanks    *)
(* around it, which is the empty string when nothing follows.              *)
(***************************************************************************)
\* the first word of a line: what stands before the first blank, leading blanks aside
FirstWord(line) ==
    LET t == LStrip(line)
        n == CHOOSE k \in 0..Len(t) :
                /\ \A j \in 1..k : t[j] \notin Whitespace
                /\ k < Len(t) => t[k + 1] \in Whitespace
    IN  Take(t, n)

\* what follows the first word
Remainder(line) == Drop(LStrip(line), Len(FirstWord(line)))

C24_ParsersAgree ==
    (parsed.cmd_data # <<>> /\ parsed.pair # <<>>) =>
        /\ parsed.cmd_data[1] = parsed.pair[1]
        /\ parsed.pair[1].command = Upper(FirstWord(command_str))
        /\ parsed.pair[1].argument = Strip(Remainder(command_str))

\* a lower-case word with blanks around it and an argument of two words, parsed by both
C24_Witness ==
    /\ command_str = <<SP, "l", "s", SP, SP, "f", SP, SP, "x", SP, LF>>
    /\ parsed.cmd_data = <<[command |-> LS, argument |-> <<"f", SP, SP, "x">>]>>
    /\ parsed.pair # <<>>

(***************************************************************************)
(* C21.  When the file system fails a session whose connection is up (the  *)
(* file of an upload cannot be opened, or the write of its content does    *)
(* not complete), the session sends an ERROR and goes back to the top of   *)
(* its command loop.                                                       *)
(***************************************************************************)
\* the bytes read for an upload are such that the target file is opened
OpensTarget(data) == data # <<>> /\ Utf8(data) /\ (JsonValid(data) => JsonHasContent(data))

OpenFails(s) ==
    /\ pc[s] = "AwaitingPutPayload"
    /\ NewEvents(s) # <<>>
    /\ IsPutRecv(NewEvents(s)[1])
    /\ OpensTarget(NewEvents(s)[1].data)
    /\ ~CanOpenForWrite(Resolve(local[s].argument))

WriteFails(s) ==
    /\ pc[s] = "PutWriting"
    /\ pc'[s] # "PutWriting"
    /\ fs'[Resolve(local[s].argument)] # local[s].content

C21_Step ==
    \A s \in Sessions :
        (link[s] = "up" /\ (OpenFails(s) \/ WriteFails(s))) =>
            /\ pc'[s] = "LoopTop"
            /\ NewEvents(s) # <<>>
            /\ IsSend(Last(NewEvents(s)))
            /\ Last(NewEvents(s)).msg.status = "ERROR"

C21_FileErrorReported == [][C21_Step]_vars

(***************************************************************************)
(* C25.  Every command called on the connected client has put its command *)
(* line on the connection, and has not given up before reading the         *)
(* server's answer.                                                        *)
(***************************************************************************)
C25_CommandsSent ==
    \A i \in 1..Len(calls) :
        /\ calls[i].sent = calls[i].command
        /\ calls[i].result

(***************************************************************************)
(* C27.  When the bytes a session reads after READY are not empty and are  *)
(* no JSON document, and the target can be opened, the session takes them  *)
(* as the content to store, sending no error; and when the write of such   *)
(* a content completes, the file holds exactly these bytes and the session *)
(* sends OK "File <name> saved successfully".                              *)
(***************************************************************************)
C27_Step ==
    \A s \in Sessions :
        LET new == NewEvents(s)
            file_path == Resolve(local[s].argument)
        IN  /\ ( /\ pc[s] = "AwaitingPutPayload"
                 /\ link[s] = "up"
                 /\ new # <<>>
                 /\ IsPutRecv(new[1])
                 /\ new[1].data # <<>>
                 /\ ~JsonValid(new[1].data)
                 /\ CanOpenForWrite(file_path) )
               => /\ new = <<new[1]>>
                  /\ pc'[s] = "PutWriting"
                  /\ local'[s].content = new[1].data
            /\ ( /\ pc[s] = "PutWriting"
                 /\ pc'[s] # "PutWriting"
                 /\ local[s].binary
                 /\ link[s] = "up"
                 /\ ~WriteFails(s) )
               => /\ fs'[file_path] = local[s].content
                  /\ new = <<SendEv(Saved(local[s].argument))>>
                  /\ pc'[s] = "LoopTop"

C27_BinaryUploadStored == [][C27_Step]_vars

(***************************************************************************)
(* C23.  With the shutdown flag set, a session that has sent READY and is  *)
(* in its upload leaves the upload only by sending the final OK or ERROR   *)
(* and going back to the top of its loop, where it sees the flag, or by a  *)
(* failure of its connection.                                              *)
(***************************************************************************)
C23_Step ==
    \A s \in Sessions :
        (stop /\ MidUpload(s) /\ pc'[s] \notin {pc[s], "PutWriting"}) =>
            \/ /\ pc'[s] = "LoopTop"
               /\ NewEvents(s) # <<>>
               /\ IsSend(Last(NewEvents(s)))
               /\ Last(NewEvents(s)).msg.status \in {"OK", "ERROR"}
            \/ /\ pc'[s] = "Closing"
               /\ link[s] = "reset"

C23_UploadBeforeShutdown == [][C23_Step]_vars

(***************************************************************************)
(* C26.  When a session has sent the metadata of a GET and then the file's *)
(* content, the size of the metadata is the length of the content.         *)
(***************************************************************************)
C26_SizeMatchesContent ==
    \A s \in Sessions : \A i \in 2..Len(Out(s)) :
        (Out(s)[i].status = "FILE_DATA" /\ Out(s)[i - 1].data.kind = "meta")
            => Out(s)[i - 1].data.size = ByteLen(Out(s)[i].data.content)

====
